---------------------------- MODULE Spec2Model ----------------------------
(***************************************************************************)
(* Label templates of InvenTree (InvenTree/label/models.py): the filter    *)
(* validators, the upload path (rename_label), the field validators that   *)
(* guard a save, and the context-assembly / rendering pipeline of          *)
(* LabelTemplate and its four concrete subtypes.                           *)
(*                                                                         *)
(* Strings are sequences of tokens.  Values stored in a template context   *)
(* are tagged tuples (<<"int", 50>>, <<"obj", "s1">>, ...), Python being   *)
(* dynamically typed.                                                      *)
(***************************************************************************)
EXTENDS Integers, Sequences, FiniteSets, TLC

VARIABLES
    \* --- filter validation ---
    filters,          \* the filter string handed to a validator
    groups,           \* how that string was put together (history variable)
    vresult,          \* outcome of the last validator call
    \* --- upload path ---
    cls,              \* the concrete label class of the instance at hand
    filename,         \* the uploaded file name
    renamed,          \* outcome of the last rename_label call
    \* --- saving ---
    db,               \* the stored label templates of class cls
    lastSave,         \* the last save attempted and its outcome
    \* --- context assembly and rendering ---
    tmpl,             \* the label template instance (self)
    object_to_print,  \* self.object_to_print
    plugins,          \* registry.with_mixin('report'), in registration order
    clock,            \* the system clock
    op,               \* the running entry point and its request
    pc,               \* position inside the running entry point
    pass,             \* number of context() calls started by the entry point
    idx,              \* position of the plugin loop
    context,          \* the mapping context() is working on
    fname,            \* the filename generate_filename produced
    log,              \* what the running entry point did so far
    result,           \* how the entry point ended
    prev              \* the previous completed render_as_string call

fvars == <<filters, groups, vresult>>
nvars == <<filename, renamed>>
svars == <<db, lastSave>>
rvars == <<tmpl, object_to_print, plugins, clock, op, pc, pass, idx, context,
           fname, log, result, prev>>
vars == <<filters, groups, vresult, cls, filename, renamed, db, lastSave,
          tmpl, object_to_print, plugins, clock, op, pc, pass, idx, context,
          fname, log, result, prev>>

-----------------------------------------------------------------------------
(* Generic helpers on token sequences *)

Last(s) == s[Len(s)]

Range(s) == {s[i] : i \in 1..Len(s)}

\* Positions of token t in s
Positions(s, t) == {i \in 1..Len(s) : s[i] = t}

Max(S) == CHOOSE m \in S : \A n \in S : n <= m

\* str.split(sep): the pieces of s between occurrences of sep
RECURSIVE SplitOn(_, _)
SplitOn(s, sep) ==
    IF Positions(s, sep) = {} THEN <<s>>
    ELSE LET i == Max(Positions(s, sep))
         IN  Append(SplitOn(SubSeq(s, 1, i - 1), sep), SubSeq(s, i + 1, Len(s)))

-----------------------------------------------------------------------------
(* The four concrete label classes *)

Kinds == {"StockItemLabel", "StockLocationLabel", "PartLabel", "BuildLineLabel"}

SUBDIR(kind) ==
    CASE kind = "StockItemLabel"     -> "stockitem"
      [] kind = "StockLocationLabel" -> "stocklocation"
      [] kind = "PartLabel"          -> "part"
      [] kind = "BuildLineLabel"     -> "buildline"


-----------------------------------------------------------------------------
(* Filter validators (models.py 42-67)                                     *)
(*                                                                         *)
(* A filter string is a sequence of tokens: field names, "=", "," and the  *)
(* value "1".  validateFilterString lives in InvenTree/helpers.py; it is   *)
(* modelled from its contract: split on ",", split each group on "=",      *)
(* require exactly a key and a value, require the key to be a field of the *)
(* model, report the offending keys and groups, return the string as is.   *)

\* Queryable fields of each entity type
Fields(model) ==
    CASE model = "StockItem"     -> {"part", "quantity", "serial"}
      [] model = "StockLocation" -> {"name", "parent"}
      [] model = "Part"          -> {"name", "category", "IPN"}
      [] model = "BuildLine"     -> {"build", "bom_item", "quantity"}

\* A group is a well-formed pair when it reads key = value
IsPair(group) ==
    LET pair == SplitOn(group, "=")
    IN  Len(pair) = 2 /\ Len(pair[1]) = 1 /\ Len(pair[2]) = 1

PairKey(group) == SplitOn(group, "=")[1][1]

NoResult == [status |-> "none", by |-> "none", value |-> <<>>,
             keys |-> {}, unparseable |-> {}]

validateFilterString(value, model) ==
    IF value = <<>>
    THEN [NoResult EXCEPT !.status = "ok", !.value = value]
    ELSE LET gs      == Range(SplitOn(value, ","))
             badGrp  == {g \in gs : ~IsPair(g)}
             badKeys == {PairKey(g) : g \in {h \in gs : IsPair(h) /\ PairKey(h) \notin Fields(model)}}
         IN  IF badGrp = {} /\ badKeys = {}
             THEN [NoResult EXCEPT !.status = "ok", !.value = value]
             ELSE [NoResult EXCEPT !.status = "ValidationError",
                                   !.keys = badKeys, !.unparseable = badGrp]

validate_stock_item_filters(f) == validateFilterString(f, "StockItem")

validate_stock_location_filters(f) == validateFilterString(f, "StockLocation")

\* A validator checking against another class's entity type
validate_part_filters_wrong_model(f) == validateFilterString(f, "StockItem")

validate_part_filters(f) == validateFilterString(f, "Part")

validate_build_line_filters(f) == validateFilterString(f, "BuildLine")

\* The validator attached to the filters field of each class (252-254,
\* 293-294, 321-323, 357-359)
FiltersValidator(kind, f) ==
    CASE kind = "StockItemLabel"     -> validate_stock_item_filters(f)
      [] kind = "StockLocationLabel" -> validate_stock_location_filters(f)
      [] kind = "PartLabel"          -> validate_part_filters(f)
      [] kind = "BuildLineLabel"     -> validate_build_line_filters(f)

\* The entity type a label class is about
EntityOf(kind) ==
    CASE kind = "StockItemLabel"     -> "StockItem"
      [] kind = "StockLocationLabel" -> "StockLocation"
      [] kind = "PartLabel"          -> "Part"
      [] kind = "BuildLineLabel"     -> "BuildLine"

\* --- inputs: filter strings put together group by group ---

MaxGroups == 2

FilterKeys == {"serial", "name", "build", "bogus"}

\* Shapes of a group: a pair, a bare key, a key without value, a value
\* without key, a pair with a second "="
GroupOf(shape, k) ==
    CASE shape = "pair"    -> <<k, "=", "1">>
      [] shape = "bare"    -> <<k>>
      [] shape = "novalue" -> <<k, "=">>
      [] shape = "nokey"   -> <<"=", "1">>
      [] shape = "double"  -> <<k, "=", "1", "=", "1">>

Shapes == {"pair", "bare", "novalue", "nokey", "double"}

FiltersInit ==
    /\ filters = <<>>
    /\ groups = <<>>
    /\ vresult = NoResult

\* The caller extends the filter string by one more group
AddGroup(shape, k) ==
    /\ vresult.status = "none"
    /\ Len(groups) < MaxGroups
    /\ filters' = (IF filters = <<>> THEN <<>> ELSE Append(filters, ","))
                     \o GroupOf(shape, k)
    /\ groups' = Append(groups, [shape |-> shape, key |-> k])
    /\ UNCHANGED vresult
    /\ UNCHANGED <<cls, nvars, svars, rvars>>

\* The filters field of a label of class kind is validated
Validate(kind) ==
    /\ vresult.status = "none"
    /\ vresult' = [FiltersValidator(kind, filters) EXCEPT !.by = kind]
    /\ UNCHANGED <<filters, groups>>
    /\ UNCHANGED <<cls, nvars, svars, rvars>>

-----------------------------------------------------------------------------
(* Upload path (models.py 35-39)                                           *)
(*                                                                         *)
(* A path is a sequence of tokens; "/" is the separator, "." a dot, any    *)
(* other token a run of ordinary characters.                               *)

\* os.path.basename: what follows the last separator
basename(p) ==
    IF Positions(p, "/") = {} THEN p
    ELSE SubSeq(p, Max(Positions(p, "/")) + 1, Len(p))

\* os.path.join of two components
join2(a, b) ==
    IF b # <<>> /\ b[1] = "/" THEN b
    ELSE IF a = <<>> \/ Last(a) = "/" THEN a \o b
    ELSE a \o <<"/">> \o b

\* os.path.join(a, b, c, d)
join4(a, b, c, d) == join2(join2(join2(a, b), c), d)

rename_label(kind, name) ==
    join4(<<"label">>, <<"template">>, <<SUBDIR(kind)>>, basename(name))

\* The components of a path, and the directory entries it resolves to
\* (os.path.normpath: "" and "." are dropped, ".." leaves a directory)
Components(p) == SplitOn(p, "/")

RECURSIVE Resolve(_)
Resolve(comps) ==
    IF comps = <<>> THEN <<>>
    ELSE LET front == Resolve(SubSeq(comps, 1, Len(comps) - 1))
             c     == Last(comps)
         IN  IF c = <<>> \/ c = <<".">> THEN front
             ELSE IF c = <<".", ".">>
                  THEN (IF front = <<>> \/ Last(front) = <<".", ".">>
                        THEN Append(front, c)
                        ELSE SubSeq(front, 1, Len(front) - 1))
                  ELSE Append(front, c)

NotRenamed == [done |-> FALSE, path |-> <<>>]

\* --- inputs: file names typed token by token ---

MaxNameLen == 4

PathTokens == {"/", ".", "a"}

RenameInit ==
    /\ cls \in Kinds
    /\ filename = <<>>
    /\ renamed = NotRenamed

TypeToken(t) ==
    /\ ~renamed.done
    /\ Len(filename) < MaxNameLen
    /\ filename' = Append(filename, t)
    /\ UNCHANGED <<cls, renamed>>
    /\ UNCHANGED <<fvars, svars, rvars>>

\* The file field asks upload_to for the storage path (line 123)
Rename ==
    /\ ~renamed.done
    /\ filename # <<>>
    /\ renamed' = [done |-> TRUE, path |-> rename_label(cls, filename)]
    /\ UNCHANGED <<cls, filename>>
    /\ UNCHANGED <<fvars, svars, rvars>>

-----------------------------------------------------------------------------
(* Saving a label template: the field validators (models.py 109-156,       *)
(* 248-255) guard the write.                                               *)

\* pathlib's suffix of the file's base name, without the dot: what follows
\* the last "." unless that dot leads or ends the name
Suffix(name) ==
    LET b    == basename(name)
        dots == Positions(b, ".")
    IN  IF dots = {} THEN <<>>
        ELSE IF Max(dots) = 1 \/ Max(dots) = Len(b) THEN <<>>
        ELSE SubSeq(b, Max(dots) + 1, Len(b))

\* str.lower on a token
Lower(t) == IF t = "HTML" THEN "html" ELSE IF t = "TXT" THEN "txt" ELSE t

LowerSeq(s) == [i \in 1..Len(s) |-> Lower(s[i])]

\* allowed_extensions of the label field (line 128)
AllowedExtensions == {<<"html">>}

\* django FileExtensionValidator: the lower-cased suffix must be allowed
FileExtensionValidator(name) == LowerSeq(Suffix(name)) \in AllowedExtensions

\* django MinValueValidator(limit): a value below the limit is invalid
MinValueValidator(limit, value) == ~(value < limit)

\* limit values of the width and height validators (lines 141, 148)
MinWidth == 2

MinHeight == 2

\* A width validator that also refuses the limit itself
WidthValidStrict(w) == w > MinWidth

WidthValid(w) == MinValueValidator(MinWidth, w)

HeightValid(h) == MinValueValidator(MinHeight, h)

\* blank=False on name (line 110)
NameValid(n) == n # ""

NoRecord == [exists |-> FALSE, name |-> "", label |-> <<>>, width |-> 0,
             height |-> 0, filters |-> <<>>]

\* The record a candidate is stored as: the file goes where upload_to says
Stored(kind, c) ==
    [exists |-> TRUE, name |-> c.name, label |-> rename_label(kind, c.upload),
     width |-> c.width, height |-> c.height, filters |-> c.filters]

\* unique=True on label (line 124): no other record holds the same path
LabelUnique(kind, id, c, table) ==
    \A other \in DOMAIN table \ {id} :
        table[other].exists => table[other].label # rename_label(kind, c.upload)

\* The field-scoped errors validation raises for candidate c
FieldErrors(kind, id, c, table) ==
    (IF NameValid(c.name) THEN {} ELSE {<<"name", "blank">>})
    \cup (IF FileExtensionValidator(c.upload) THEN {}
          ELSE {<<"label", "invalid_extension">>})
    \cup (IF LabelUnique(kind, id, c, table) THEN {} ELSE {<<"label", "unique">>})
    \cup (IF WidthValid(c.width) THEN {} ELSE {<<"width", "min_value">>})
    \cup (IF HeightValid(c.height) THEN {} ELSE {<<"height", "min_value">>})
    \cup (IF FiltersValidator(kind, c.filters).status = "ok" THEN {}
          ELSE {<<"filters", "invalid">>})

\* --- inputs ---

MaxDim == 3

Dims == 1..MaxDim

UploadNames == {<<"x", ".", "html">>, <<"y", ".", "html">>,
                <<"x", ".", "HTML">>, <<"x", ".", "txt">>}

Candidates ==
    [name : {"", "label"}, upload : UploadNames, width : Dims, height : Dims,
     filters : {<<>>, <<"bogus", "=", "1">>}]

\* Record "t1" is already stored; record "t2" is the one being written
Ids == {"t1", "t2"}

Existing(kind) ==
    [exists |-> TRUE, name |-> "first",
     label |-> rename_label(kind, <<"y", ".", "html">>),
     width |-> 50, height |-> 20, filters |-> <<>>]

NoCandidate == [name |-> "", upload |-> <<>>, width |-> 0, height |-> 0,
                filters |-> <<>>]

NoSave == [id |-> "none", cand |-> NoCandidate, outcome |-> "none", errors |-> {}]

SaveInit ==
    /\ cls \in Kinds
    /\ db = [id \in Ids |-> IF id = "t1" THEN Existing(cls) ELSE NoRecord]
    /\ lastSave = NoSave

\* A form for record "t2" is submitted with candidate c: the fields are
\* validated and, when every validator passes, the record is written
Save(c) ==
    LET errors == FieldErrors(cls, "t2", c, db)
    IN  /\ lastSave.id = "none"
        /\ lastSave' = [id |-> "t2", cand |-> c,
                        outcome |-> IF errors = {} THEN "saved" ELSE "ValidationError",
                        errors |-> errors]
        /\ db' = IF errors = {} THEN [db EXCEPT !["t2"] = Stored(cls, c)] ELSE db
        /\ UNCHANGED <<cls, fvars, nvars, rvars>>

\* The response has been delivered; the next form can be submitted
SaveDone ==
    /\ lastSave.id # "none"
    /\ lastSave' = NoSave
    /\ UNCHANGED <<db, cls, fvars, nvars, rvars>>

-----------------------------------------------------------------------------
(* The objects labels are printed against.  A value is a tagged tuple:     *)
(* <<"none">> is None, <<"obj", id>> a model instance, <<"dec", c, s>> the *)
(* Decimal c / 10^s, <<"str", t>> a string, <<"call", id, m>> what method  *)
(* m of instance id returns.                                               *)

None == <<"none">>

Heap ==
    [s1 |-> [part |-> <<"obj", "P1">>, quantity |-> <<"dec", 5000, 3>>,
             serial |-> <<"str", "42">>, barcode_data |-> <<"str", "bd-s1">>,
             barcode_hash |-> <<"str", "bh-s1">>],
     s2 |-> [part |-> <<"obj", "P2">>, quantity |-> <<"dec", 25, 1>>,
             serial |-> <<"str", "">>, barcode_data |-> <<"str", "bd-s2">>,
             barcode_hash |-> <<"str", "bh-s2">>],
     P1 |-> [full_name |-> <<"str", "IPN-001 | Widget">>, IPN |-> <<"str", "IPN-001">>,
             revision |-> <<"str", "A">>, category |-> <<"obj", "C1">>,
             name |-> <<"str", "Widget">>, description |-> <<"str", "A widget">>],
     P2 |-> [full_name |-> <<"str", "Gadget">>, IPN |-> <<"str", "IPN-002">>,
             revision |-> <<"str", "">>, category |-> None,
             name |-> <<"str", "Gadget">>, description |-> <<"str", "">>],
     C1 |-> [name |-> <<"str", "Mechanical">>],
     l1 |-> [name |-> <<"str", "Shelf">>],
     l2 |-> [name |-> <<"str", "Bin">>],
     b1 |-> [build |-> <<"obj", "B1">>, bom_item |-> <<"obj", "i1">>,
             quantity |-> <<"dec", 1000, 2>>, allocated_quantity |-> <<"dec", 0, 0>>,
             allocations |-> <<"call", "b1", "allocations">>],
     b2 |-> [build |-> <<"obj", "B1">>, bom_item |-> <<"obj", "i2">>,
             quantity |-> <<"dec", 3, 0>>, allocated_quantity |-> <<"dec", 1, 0>>,
             allocations |-> <<"call", "b2", "allocations">>],
     B1 |-> [title |-> <<"str", "Build 1">>],
     i1 |-> [sub_part |-> <<"obj", "P1">>],
     i2 |-> [sub_part |-> <<"obj", "P2">>]]

Methods == {"format_barcode", "get_absolute_url", "testResultMap", "parameters_map"}

AttributeError == <<"AttributeError">>

\* v.a for a value v: an instance's field, a method's result, or the
\* failure Python raises for None and for a name the value does not have
GetAttr(v, a) ==
    IF v[1] # "obj" THEN AttributeError
    ELSE IF a \in Methods THEN <<"call", v[2], a>>
    ELSE IF a \in DOMAIN Heap[v[2]] THEN Heap[v[2]][a]
    ELSE AttributeError

\* v.a1.a2... along a path of names
RECURSIVE Deref(_, _)
Deref(v, path) ==
    IF path = <<>> THEN v
    ELSE IF v = AttributeError THEN AttributeError
    ELSE Deref(GetAttr(v, path[1]), SubSeq(path, 2, Len(path)))

\* InvenTree.helpers.normalize on a Decimal: trailing zeros of the
\* fraction are dropped, the number stays the same
RECURSIVE normalize(_)
normalize(d) ==
    IF d[1] # "dec" THEN d
    ELSE IF d[3] > 0 /\ d[2] % 10 = 0 THEN normalize(<<"dec", d[2] \div 10, d[3] - 1>>)
    ELSE d

\* The objects of the entity type a label class prints
ObjectsOf(kind) ==
    CASE kind = "StockItemLabel"     -> {<<"obj", "s1">>, <<"obj", "s2">>}
      [] kind = "StockLocationLabel" -> {<<"obj", "l1">>, <<"obj", "l2">>}
      [] kind = "PartLabel"          -> {<<"obj", "P1">>, <<"obj", "P2">>}
      [] kind = "BuildLineLabel"     -> {<<"obj", "b1">>, <<"obj", "b2">>}

\* Requests, and the user each carries
Requests == {"r1", "r2"}

UserOf(r) == IF r = "r1" THEN "alice" ELSE "bob"

-----------------------------------------------------------------------------
(* get_context_data of the four classes (257-276, 297-304, 326-340,        *)
(* 362-375): the entries of the dict literal, each a key, the attribute    *)
(* path read from object_to_print and the call, if any, wrapped around it. *)

E(key, path, wrap) == [key |-> key, path |-> path, wrap |-> wrap]

\* StockItemLabel whose quantity is not normalized
StockItemEntriesRawQuantity ==
    {E("item", <<>>, ""), E("part", <<"part">>, ""),
     E("name", <<"part", "full_name">>, ""), E("ipn", <<"part", "IPN">>, ""),
     E("revision", <<"part", "revision">>, ""),
     E("quantity", <<"quantity">>, ""),
     E("serial", <<"serial">>, ""),
     E("barcode_data", <<"barcode_data">>, ""),
     E("barcode_hash", <<"barcode_hash">>, ""),
     E("qr_data", <<"format_barcode">>, ""),
     E("qr_url", <<"get_absolute_url">>, "build_absolute_uri"),
     E("tests", <<"testResultMap">>, ""),
     E("parameters", <<"part", "parameters_map">>, "")}

StockItemEntries ==
    {E("item", <<>>, ""), E("part", <<"part">>, ""),
     E("name", <<"part", "full_name">>, ""), E("ipn", <<"part", "IPN">>, ""),
     E("revision", <<"part", "revision">>, ""),
     E("quantity", <<"quantity">>, "normalize"),
     E("serial", <<"serial">>, ""),
     E("barcode_data", <<"barcode_data">>, ""),
     E("barcode_hash", <<"barcode_hash">>, ""),
     E("qr_data", <<"format_barcode">>, ""),
     E("qr_url", <<"get_absolute_url">>, "build_absolute_uri"),
     E("tests", <<"testResultMap">>, ""),
     E("parameters", <<"part", "parameters_map">>, "")}

\* StockLocationLabel without its qr_data entry
StockLocationEntriesNoBarcode == {E("location", <<>>, "")}

StockLocationEntries ==
    {E("location", <<>>, ""), E("qr_data", <<"format_barcode">>, "")}

PartEntries ==
    {E("part", <<>>, ""), E("category", <<"category">>, ""),
     E("name", <<"name">>, ""), E("description", <<"description">>, ""),
     E("IPN", <<"IPN">>, ""), E("revision", <<"revision">>, ""),
     E("qr_data", <<"format_barcode">>, ""),
     E("qr_url", <<"get_absolute_url">>, "build_absolute_uri"),
     E("parameters", <<"parameters_map">>, "")}

BuildLineEntries ==
    {E("build_line", <<>>, ""), E("build", <<"build">>, ""),
     E("bom_item", <<"bom_item">>, ""), E("part", <<"bom_item", "sub_part">>, ""),
     E("quantity", <<"quantity">>, ""),
     E("allocated_quantity", <<"allocated_quantity">>, ""),
     E("allocations", <<"allocations">>, "")}

Entries(kind) ==
    CASE kind = "StockItemLabel"     -> StockItemEntries
      [] kind = "StockLocationLabel" -> StockLocationEntries
      [] kind = "PartLabel"          -> PartEntries
      [] kind = "BuildLineLabel"     -> BuildLineEntries

\* The value of one entry for object obj and request req
EntryValue(e, obj, req) ==
    LET v == Deref(obj, e.path)
    IN  IF v = AttributeError THEN AttributeError
        ELSE IF e.wrap = "normalize" THEN normalize(v)
        ELSE IF e.wrap = "build_absolute_uri" THEN <<"uri", req, v>>
        ELSE v

EmptyMapping == [k \in {} |-> None]

\* get_context_data(request): a fresh mapping, or the attribute failure of
\* the first entry that cannot be read
get_context_data(kind, obj, req) ==
    LET es == Entries(kind)
    IN  IF \E e \in es : EntryValue(e, obj, req) = AttributeError
        THEN [raised |-> TRUE, map |-> EmptyMapping]
        ELSE [raised |-> FALSE,
              map |-> [k \in {e.key : e \in es} |->
                         EntryValue(CHOOSE e \in es : e.key = k, obj, req)]]

-----------------------------------------------------------------------------
(* Context assembly and rendering (models.py 158-235)                      *)

\* The mapping c with key k set to v (context[k] = v)
Put(c, k, v) == [x \in DOMAIN c \cup {k} |-> IF x = k THEN v ELSE c[x]]

\* dict.setdefault in place of an assignment: an existing key is kept
PutIfAbsent(c, k, v) == IF k \in DOMAIN c THEN c ELSE Put(c, k, v)

\* What a plugin's write does to the shared mapping
PluginPut(c, k, v) == Put(c, k, v)

\* datetime.datetime.now() and its .date(): two instants share a date
Now(t) == <<"datetime", t>>

Today(t) == <<"date", t \div 2>>

UniversalKeys == {"base_url", "date", "datetime", "request", "user", "width", "height"}

\* Universal keys with a base URL that carries the time of the call
UniversalStamped(self, req, t) ==
    [k \in UniversalKeys |->
        CASE k = "base_url" -> <<"base_url", req, t>>
          [] k = "date"     -> Today(t)
          [] k = "datetime" -> Now(t)
          [] k = "request"  -> <<"req", req>>
          [] k = "user"     -> <<"user", UserOf(req)>>
          [] k = "width"    -> <<"num", self.width>>
          [] k = "height"   -> <<"num", self.height>>]

\* Universal keys with width and height taken from each other's field
UniversalSwapped(self, req, t) ==
    [k \in UniversalKeys |->
        CASE k = "base_url" -> <<"base_url", req>>
          [] k = "date"     -> Today(t)
          [] k = "datetime" -> Now(t)
          [] k = "request"  -> <<"req", req>>
          [] k = "user"     -> <<"user", UserOf(req)>>
          [] k = "width"    -> <<"num", self.height>>
          [] k = "height"   -> <<"num", self.width>>]

\* The "basic" context data every label gets (lines 194-200)
Universal(self, req, t) ==
    [k \in UniversalKeys |->
        CASE k = "base_url" -> <<"base_url", req>>
          [] k = "date"     -> Today(t)
          [] k = "datetime" -> Now(t)
          [] k = "request"  -> <<"req", req>>
          [] k = "user"     -> <<"user", UserOf(req)>>
          [] k = "width"    -> <<"num", self.width>>
          [] k = "height"   -> <<"num", self.height>>]

\* context[k] = ... for each universal key, over what the mapping holds
WithUniversal(c, u) == [k \in DOMAIN c \cup DOMAIN u |-> IF k \in DOMAIN u THEN u[k] ELSE c[k]]

\* A plugin loop that walks the registry backwards
PluginAtReversed(reg, i) == reg[Len(reg) + 1 - i]

\* The plugin the loop of line 205 reaches at its i-th turn
PluginAt(reg, i) == reg[i]

\* A second pass that goes on with the mapping of the first
StartMappingShared(fresh, old) == WithUniversal(old, fresh)

\* The mapping a context() call starts from: the dict get_context_data
\* has just built (line 191), whatever an earlier call left behind
StartMapping(fresh, old) == fresh

\* template_name (158-170): the stored file below MEDIA_ROOT
template_name(self) == <<"MEDIA_ROOT", "/">> \o self.label

\* A filename pattern is a sequence of pieces: literal text, a variable
\* {{ name }}, or a tag the template engine cannot parse
Lit(t) == <<"lit", t>>

Var(n) == <<"var", n>>

BadTag == <<"bad", "{%">>

\* Template(pattern) compiles unless a piece is malformed
Compiles(pattern) == \A i \in 1..Len(pattern) : pattern[i][1] # "bad"

\* template_string.render(Context(ctx)): a variable the context lacks
\* renders as the empty string
RenderPattern(pattern, ctx) ==
    [i \in 1..Len(pattern) |->
        IF pattern[i][1] = "var"
        THEN (IF pattern[i][2] \in DOMAIN ctx THEN ctx[pattern[i][2]] ELSE <<"str", "">>)
        ELSE <<"str", pattern[i][2]>>]

\* --- state of a call ---

NoOp == [name |-> "none", request |-> "none"]

NoOutcome == [kind |-> "none", exc |-> "", where |-> ""]

NoTemplate == [kind |-> "none", width |-> 0, height |-> 0,
               filename_pattern |-> <<>>, label |-> <<>>]

\* A rendered document: what render_to_string is given
NoDocument == [template |-> <<>>, context |-> EmptyMapping, request |-> "none"]

NoPrev == [valid |-> FALSE, self |-> NoTemplate, obj |-> None, at |-> 0,
           contrib |-> <<>>, html |-> NoDocument]

Event(e, plugin, seen, wrote, at) ==
    [e |-> e, plugin |-> plugin, self |-> tmpl, obj |-> object_to_print,
     request |-> op.request, ctx |-> pass, seen |-> seen, wrote |-> wrote, at |-> at]

\* The keys one plugin call may write: a universal key, an entity key of
\* the class, a key of its own; a call writes one of them or nothing
WritableKeys(kind) ==
    {"width", IF kind = "StockLocationLabel" THEN "location" ELSE "part", "extra"}

PluginPool == {"p1", "p2"}

Registries ==
    {<<>>} \cup {<<p>> : p \in PluginPool}
           \cup {x \in PluginPool \X PluginPool : x[1] # x[2]}

\* --- inputs: the template instance ---

PatternDefault == <<Lit("label.pdf")>>

PatternVar == <<Lit("label-"), Var("extra"), Lit(".pdf")>>

PatternBad == <<Lit("label"), BadTag>>

Patterns == {PatternDefault, PatternVar, PatternBad}

TemplateDims == {<<50, 20>>, <<2, 3>>}

Templates ==
    {[kind |-> k, width |-> d[1], height |-> d[2], filename_pattern |-> p,
      label |-> rename_label(k, <<"x", ".", "html">>)] :
        k \in Kinds, d \in TemplateDims, p \in Patterns}

EntryPoints == {"context", "generate_filename", "render_as_string", "render"}

\* --- actions ---

\* The caller binds the object to print (line 95: "filled out later")
Bind(o) ==
    /\ pc = "idle"
    /\ object_to_print' = o
    /\ UNCHANGED <<tmpl, plugins, clock, op, pc, pass, idx, context, fname,
                   log, result, prev>>
    /\ UNCHANGED <<fvars, cls, nvars, svars>>

\* The caller enters one of the entry points with a request.  render (223-
\* 228) and generate_filename (181) first compile the filename pattern;
\* context and render_as_string (216) go straight to context assembly.
Call(name, req) ==
    /\ pc = "idle"
    /\ op' = [name |-> name, request |-> req]
    /\ pc' = IF name \in {"render", "generate_filename"} THEN "compile" ELSE "get"
    /\ UNCHANGED <<tmpl, object_to_print, plugins, clock, pass, idx, context,
                   fname, log, result, prev>>
    /\ UNCHANGED <<fvars, cls, nvars, svars>>

\* generate_filename, line 181: Template(self.filename_pattern)
CompilePattern ==
    /\ pc = "compile"
    /\ IF Compiles(tmpl.filename_pattern)
       THEN /\ pc' = "get"
            /\ log' = Append(log, Event("compiled", "", EmptyMapping, "", 0))
            /\ UNCHANGED result
       ELSE /\ pc' = "done"
            /\ result' = [kind |-> "raise", exc |-> "TemplateSyntaxError",
                          where |-> "generate_filename"]
            /\ UNCHANGED log
    /\ UNCHANGED <<tmpl, object_to_print, plugins, clock, op, pass, idx,
                   context, fname, prev>>
    /\ UNCHANGED <<fvars, cls, nvars, svars>>

\* context, line 191: context = self.get_context_data(request)
GetContextData ==
    /\ pc = "get"
    /\ LET got == get_context_data(tmpl.kind, object_to_print, op.request)
       IN  IF got.raised
           THEN /\ pc' = "done"
                /\ result' = [kind |-> "raise", exc |-> "AttributeError",
                              where |-> "get_context_data"]
                /\ UNCHANGED <<context, log>>
           ELSE /\ pc' = "universal"
                /\ context' = StartMapping(got.map, context)
                /\ log' = Append(log, [Event("get_context_data", "",
                                             StartMapping(got.map, context), "", 0)
                                       EXCEPT !.ctx = pass + 1])
                /\ UNCHANGED result
    /\ pass' = pass + 1
    /\ UNCHANGED <<tmpl, object_to_print, plugins, clock, op, idx, fname, prev>>
    /\ UNCHANGED <<fvars, cls, nvars, svars>>

\* context, lines 194-203: the universal keys, then the registry is read
AddUniversal ==
    /\ pc = "universal"
    /\ context' = WithUniversal(context, Universal(tmpl, op.request, clock))
    /\ log' = Append(log, Event("universal", "", context', "", clock))
    /\ idx' = 1
    /\ pc' = "plugins"
    /\ UNCHANGED <<tmpl, object_to_print, plugins, clock, op, pass, fname,
                   result, prev>>
    /\ UNCHANGED <<fvars, cls, nvars, svars>>

\* context, lines 205-207: the next plugin's add_label_context(self,
\* self.object_to_print, request, context); it writes key k, or nothing
InvokePlugin(k) ==
    /\ pc = "plugins"
    /\ idx <= Len(plugins)
    /\ LET p == PluginAt(plugins, idx)
       IN  /\ log' = Append(log, Event("plugin", p, context, k, 0))
           /\ context' = IF k = "" THEN context
                         ELSE PluginPut(context, k, <<"plugin", p>>)
    /\ idx' = idx + 1
    /\ UNCHANGED <<tmpl, object_to_print, plugins, clock, op, pc, pass, fname,
                   result, prev>>
    /\ UNCHANGED <<fvars, cls, nvars, svars>>

\* context, line 209: return context, to whoever called
ContextReturn ==
    /\ pc = "plugins"
    /\ idx > Len(plugins)
    /\ pc' = CASE op.name = "context"            -> "done"
               [] op.name = "generate_filename" -> "filename"
               [] op.name = "render_as_string"  -> "to_string"
               [] op.name = "render" /\ pass = 1 -> "filename"
               [] op.name = "render" /\ pass # 1 -> "to_response"
    /\ result' = IF op.name = "context"
                 THEN [kind |-> "return", exc |-> "", where |-> "context"]
                 ELSE result
    /\ log' = Append(log, Event("context_returned", "", context, "", 0))
    /\ UNCHANGED <<tmpl, object_to_print, plugins, clock, op, pass, idx,
                   context, fname, prev>>
    /\ UNCHANGED <<fvars, cls, nvars, svars>>

\* generate_filename, lines 185-187: the pattern rendered against ctx; in
\* render the result becomes the filename of the WeasyprintLabelMixin
\* (223-230) and context assembly starts again (233)
RenderFilename ==
    /\ pc = "filename"
    /\ fname' = RenderPattern(tmpl.filename_pattern, context)
    /\ log' = Append(log, Event("filename", "", context, "", 0))
    /\ IF op.name = "render"
       THEN pc' = "get" /\ UNCHANGED result
       ELSE /\ pc' = "done"
            /\ result' = [kind |-> "return", exc |-> "", where |-> "generate_filename"]
    /\ UNCHANGED <<tmpl, object_to_print, plugins, clock, op, pass, idx,
                   context, prev>>
    /\ UNCHANGED <<fvars, cls, nvars, svars>>

\* render_as_string, line 216: render_to_string(template_name, context, request)
RenderToString ==
    /\ pc = "to_string"
    /\ log' = Append(log, Event("html", "", context, "", 0))
    /\ pc' = "done"
    /\ result' = [kind |-> "return", exc |-> "", where |-> "render_as_string"]
    /\ UNCHANGED <<tmpl, object_to_print, plugins, clock, op, pass, idx,
                   context, fname, prev>>
    /\ UNCHANGED <<fvars, cls, nvars, svars>>

\* render, lines 232-235: wp.render_to_response(context)
RenderToResponse ==
    /\ pc = "to_response"
    /\ log' = Append(log, Event("pdf", "", context, "", 0))
    /\ pc' = "done"
    /\ result' = [kind |-> "return", exc |-> "", where |-> "render"]
    /\ UNCHANGED <<tmpl, object_to_print, plugins, clock, op, pass, idx,
                   context, fname, prev>>
    /\ UNCHANGED <<fvars, cls, nvars, svars>>

\* The events of the running call that are of kind e
EventsOf(e) == SelectSeq(log, LAMBDA ev : ev.e = e)

\* What the plugins wrote during the running call, call by call
Contributions ==
    LET calls == EventsOf("plugin")
    IN  [i \in 1..Len(calls) |-> <<calls[i].plugin, calls[i].wrote>>]

\* render_to_string(self.template_name, context, request) as a term: the
\* document is determined by the template file, the context and the request
Document == [template |-> template_name(tmpl), context |-> context,
             request |-> op.request]

CallIdle ==
    /\ op = NoOp
    /\ pc = "idle"
    /\ pass = 0
    /\ idx = 0
    /\ context = EmptyMapping
    /\ fname = <<>>
    /\ log = <<>>
    /\ result = NoOutcome

\* The call's frame is gone: the next call starts from nothing
ResetCall ==
    /\ op' = NoOp
    /\ pc' = "idle"
    /\ pass' = 0
    /\ idx' = 0
    /\ context' = EmptyMapping
    /\ fname' = <<>>
    /\ log' = <<>>
    /\ result' = NoOutcome

\* The entry point has returned or raised; the caller goes on
Finish ==
    /\ pc = "done"
    /\ ResetCall
    /\ UNCHANGED <<tmpl, object_to_print, plugins, clock, prev>>
    /\ UNCHANGED <<fvars, cls, nvars, svars>>

\* The same, the caller keeping the document render_as_string returned
FinishKeeping ==
    /\ pc = "done"
    /\ ResetCall
    /\ prev' = IF op.name = "render_as_string" /\ result.kind = "return"
               THEN [valid |-> TRUE, self |-> tmpl, obj |-> object_to_print,
                     at |-> EventsOf("universal")[1].at,
                     contrib |-> Contributions, html |-> Document]
               ELSE prev
    /\ UNCHANGED <<tmpl, object_to_print, plugins, clock>>
    /\ UNCHANGED <<fvars, cls, nvars, svars>>

MaxClock == 3

\* Time passes
Tick ==
    /\ pc = "idle"
    /\ clock < MaxClock
    /\ clock' = clock + 1
    /\ UNCHANGED <<tmpl, object_to_print, plugins, op, pc, pass, idx, context,
                   fname, log, result, prev>>
    /\ UNCHANGED <<fvars, cls, nvars, svars>>

-----------------------------------------------------------------------------
(* Specifications *)

FiltersIdle == FiltersInit

NamesIdle == cls = "none" /\ filename = <<>> /\ renamed = NotRenamed

StoreIdle == db = [id \in Ids |-> NoRecord] /\ lastSave = NoSave

RenderIdle ==
    /\ tmpl = NoTemplate
    /\ object_to_print = None
    /\ plugins = <<>>
    /\ clock = 1
    /\ prev = NoPrev
    /\ CallIdle

\* Context assembly and the four entry points of a label template
Init ==
    /\ FiltersIdle /\ NamesIdle /\ StoreIdle
    /\ tmpl \in Templates
    /\ plugins \in Registries
    /\ object_to_print = None
    /\ clock = 1
    /\ prev = NoPrev
    /\ CallIdle

Next ==
    \/ \E o \in ObjectsOf(tmpl.kind) : Bind(o)
    \/ \E name \in EntryPoints, req \in Requests : Call(name, req)
    \/ CompilePattern
    \/ GetContextData
    \/ AddUniversal
    \/ \E k \in WritableKeys(tmpl.kind) \cup {""} : InvokePlugin(k)
    \/ ContextReturn
    \/ RenderFilename
    \/ RenderToString
    \/ RenderToResponse
    \/ Finish

Spec == Init /\ [][Next]_vars

\* Repeated render_as_string calls while time passes
InitTwice ==
    /\ FiltersIdle /\ NamesIdle /\ StoreIdle
    /\ tmpl \in {t \in Templates : t.filename_pattern = PatternDefault /\ t.width = 50}
    /\ plugins \in Registries
    /\ object_to_print = None
    /\ clock = 1
    /\ prev = NoPrev
    /\ CallIdle

NextTwice ==
    \/ \E o \in ObjectsOf(tmpl.kind) : Bind(o)
    \/ Tick
    \/ \E req \in Requests : Call("render_as_string", req)
    \/ GetContextData
    \/ AddUniversal
    \/ \E k \in WritableKeys(tmpl.kind) \cup {""} : InvokePlugin(k)
    \/ ContextReturn
    \/ RenderToString
    \/ FinishKeeping

SpecTwice == InitTwice /\ [][NextTwice]_vars

\* Filter strings and the four validators
InitFilters == FiltersInit /\ NamesIdle /\ StoreIdle /\ RenderIdle

NextFilters ==
    \/ \E shape \in Shapes, k \in FilterKeys : AddGroup(shape, k)
    \/ \E kind \in Kinds : Validate(kind)

SpecFilters == InitFilters /\ [][NextFilters]_vars

\* File names and rename_label
InitNames == FiltersIdle /\ RenameInit /\ StoreIdle /\ RenderIdle

NextNames ==
    \/ \E t \in PathTokens : TypeToken(t)
    \/ Rename

SpecNames == InitNames /\ [][NextNames]_vars

\* Saving label templates
InitStore ==
    /\ FiltersIdle /\ RenderIdle
    /\ filename = <<>> /\ renamed = NotRenamed
    /\ SaveInit

NextStore ==
    \/ \E c \in Candidates : Save(c)
    \/ SaveDone

SpecStore == InitStore /\ [][NextStore]_vars

-----------------------------------------------------------------------------
(* Properties of context assembly *)

\* Positions in the log of the events of kind e that belong to pass n
PassEvents(e, n) == {i \in 1..Len(log) : log[i].e = e /\ log[i].ctx = n}

\* The passes of the running call whose context() has returned
ReturnedPasses == {log[i].ctx : i \in {j \in 1..Len(log) : log[j].e = "context_returned"}}

\* The mapping context() returned in pass n
ReturnedMapping(n) == log[CHOOSE i \in PassEvents("context_returned", n) : TRUE].seen

\* The plugin calls of pass n, in the order they were made
PluginCalls(n) == SelectSeq(log, LAMBDA ev : ev.e = "plugin" /\ ev.ctx = n)

\* The plugin calls of pass n that wrote key k
WritesOf(n, k) == SelectSeq(PluginCalls(n), LAMBDA ev : ev.wrote = k)

\* C1 as stated: whatever the registered plugins do, the mapping context()
\* returns holds 'width' and 'height' equal to the template's fields.
C1_WidthHeightAlways ==
    \A n \in ReturnedPasses :
        LET m == ReturnedMapping(n)
        IN  /\ {"width", "height"} \subseteq DOMAIN m
            /\ m["width"] = <<"num", tmpl.width>>
            /\ m["height"] = <<"num", tmpl.height>>

\* C1 amended: the mapping context() returns holds 'width' and 'height';
\* each equals the template's field unless a plugin wrote that key during
\* the call, and then it holds what the last such plugin wrote.
C1_WidthHeightUnlessWritten ==
    \A n \in ReturnedPasses :
        LET m == ReturnedMapping(n)
            configured == [width |-> tmpl.width, height |-> tmpl.height]
        IN  \A k \in {"width", "height"} :
                /\ k \in DOMAIN m
                /\ WritesOf(n, k) = <<>> => m[k] = <<"num", configured[k]>>
                /\ WritesOf(n, k) # <<>> => m[k] = <<"plugin", Last(WritesOf(n, k)).plugin>>

\* context() has returned after two plugins ran and neither wrote 'width'
C1_Witness ==
    /\ op.name = "context" /\ pc = "done" /\ result.kind = "return"
    /\ Len(PluginCalls(1)) = 2
    /\ WritesOf(1, "width") = <<>>
    /\ WritesOf(1, "extra") # <<>>
    /\ tmpl.width = 2

\* C2: in one context() call the registered plugins are invoked once each
\* in registration order, each with (self, object_to_print, request, the
\* one mapping of the call), and none before the entity and universal keys
\* are all in that mapping.
C2_PluginsOnceInOrder ==
    \A n \in 1..pass :
        LET calls == PluginCalls(n)
        IN  \* never more calls than plugins, and always in registry order
            /\ Len(calls) <= Len(plugins)
            /\ \A i \in 1..Len(calls) :
                /\ calls[i].plugin = plugins[i]
                /\ calls[i].self = tmpl
                /\ calls[i].obj = object_to_print
                /\ calls[i].request = op.request
                /\ calls[i].ctx = n
                \* entity-specific and universal keys are in place
                /\ {e.key : e \in Entries(tmpl.kind)} \cup UniversalKeys
                       \subseteq DOMAIN calls[i].seen
                \* the mapping is shared: each call finds what the one before left
                /\ i > 1 => calls[i].seen =
                      IF calls[i-1].wrote = "" THEN calls[i-1].seen
                      ELSE Put(calls[i-1].seen, calls[i-1].wrote,
                               <<"plugin", calls[i-1].plugin>>)
            \* every plugin call comes after the universal keys of its pass
            /\ \A i \in PassEvents("plugin", n) :
                   \E u \in PassEvents("universal", n) : u < i
            \* by the time context() returns every plugin has had its call
            /\ n \in ReturnedPasses => Len(calls) = Len(plugins)

\* context() has returned with two plugins registered
C2_Witness ==
    /\ op.name = "context" /\ pc = "done" /\ result.kind = "return"
    /\ Len(plugins) = 2
    /\ Len(PluginCalls(1)) = 2
    /\ PluginCalls(1)[1].wrote = "extra"

\* C3: in the mapping context() returns, a key no plugin wrote holds the
\* universal value if it is a universal key and the entity-specific value
\* otherwise; a key plugins wrote holds what the last of them, in
\* registration order, wrote; nothing is raised on the way.
C3_LastWriterWins ==
    \A n \in ReturnedPasses :
        LET m       == ReturnedMapping(n)
            entity  == get_context_data(tmpl.kind, object_to_print, op.request).map
            base    == Universal(tmpl, op.request,
                                 log[CHOOSE i \in PassEvents("universal", n) : TRUE].at)
            written == {PluginCalls(n)[i].wrote : i \in 1..Len(PluginCalls(n))} \ {""}
        IN  /\ DOMAIN m = DOMAIN entity \cup DOMAIN base \cup written
            /\ \A k \in DOMAIN m :
                 IF k \in written
                 THEN m[k] = <<"plugin", Last(WritesOf(n, k)).plugin>>
                 ELSE IF k \in UniversalKeys THEN m[k] = base[k]
                 ELSE m[k] = entity[k]
            /\ result.kind # "raise"

\* context() has returned after both plugins wrote the same universal key
C3_Witness ==
    /\ op.name = "context" /\ pc = "done" /\ result.kind = "return"
    /\ Len(WritesOf(1, "width")) = 2
    /\ context["width"] = <<"plugin", plugins[2]>>

-----------------------------------------------------------------------------
(* Properties of the entry points *)

\* The events of the running call that show work past get_context_data
PastContextData ==
    {i \in 1..Len(log) : log[i].e \in {"universal", "plugin", "context_returned",
                                       "filename", "html", "pdf"}}

\* C6 as stated: with object_to_print still None, each of the four entry
\* points ends in the attribute failure of get_context_data, with no
\* universal key added, no plugin called, no HTML or PDF produced.
C6_UnboundAlwaysAttributeError ==
    (pc = "done" /\ object_to_print = None) =>
        /\ result = [kind |-> "raise", exc |-> "AttributeError",
                     where |-> "get_context_data"]
        /\ PastContextData = {}

\* C6 amended: with object_to_print still None, context and
\* render_as_string end in the attribute failure of get_context_data, and
\* so do render and generate_filename when the filename pattern compiles;
\* when it does not, these two end in the template syntax error of line
\* 181 before get_context_data is reached.  In every case no universal key
\* is added, no plugin is called and no HTML or PDF is produced.
C6_UnboundFailsBeforeAnyOutput ==
    (pc = "done" /\ object_to_print = None) =>
        /\ PastContextData = {}
        /\ context = EmptyMapping
        /\ IF op.name \in {"render", "generate_filename"}
              /\ ~Compiles(tmpl.filename_pattern)
           THEN /\ result = [kind |-> "raise", exc |-> "TemplateSyntaxError",
                             where |-> "generate_filename"]
                /\ pass = 0
           ELSE /\ result = [kind |-> "raise", exc |-> "AttributeError",
                             where |-> "get_context_data"]
                /\ pass = 1

\* render was called on a stock location label with nothing bound and
\* failed inside get_context_data
C6_Witness ==
    /\ pc = "done" /\ object_to_print = None
    /\ op.name = "render"
    /\ tmpl.kind = "StockLocationLabel"
    /\ result.exc = "AttributeError"

\* The number a Decimal value stands for, as a fraction over 1000
Thousandths(d) ==
    CASE d[3] = 0 -> d[2] * 1000
      [] d[3] = 1 -> d[2] * 100
      [] d[3] = 2 -> d[2] * 10
      [] d[3] = 3 -> d[2]

\* The mappings get_context_data built during the running call
ContextDataEvents == {i \in 1..Len(log) : log[i].e = "get_context_data"}

\* The entity keys the claim lists for each class, with the attribute of
\* the bound object each is bound to
ListedKeys(kind) ==
    CASE kind = "StockItemLabel"     ->
             {<<"item", <<>>>>, <<"part", <<"part">>>>, <<"ipn", <<"part", "IPN">>>>,
              <<"serial", <<"serial">>>>}
      [] kind = "StockLocationLabel" -> {<<"location", <<>>>>}
      [] kind = "PartLabel"          -> {<<"part", <<>>>>, <<"category", <<"category">>>>}
      [] kind = "BuildLineLabel"     ->
             {<<"build_line", <<>>>>, <<"build", <<"build">>>>,
              <<"bom_item", <<"bom_item">>>>}

\* What the listed keys must hold for the mapping m built for object o
EntityKeysBound(kind, o, m) ==
    /\ \A kp \in ListedKeys(kind) :
          kp[1] \in DOMAIN m /\ m[kp[1]] = Deref(o, kp[2])
    /\ kind = "StockItemLabel" =>
          LET q == m["quantity"]
          IN  /\ q[1] = "dec"
              /\ Thousandths(q) = Thousandths(Heap[o[2]].quantity)
              /\ q[3] > 0 => q[2] % 10 # 0
    /\ (kind = "StockItemLabel" /\ o = <<"obj", "s1">>) =>
          /\ m["quantity"] = <<"dec", 5, 0>>
          /\ m["ipn"] = <<"str", "IPN-001">>
          /\ m["serial"] = <<"str", "42">>

\* C9 as stated: get_context_data depends on the bound object only (the
\* same object gives the same mapping whatever the request) and binds the
\* listed entity keys to it.
C9_FunctionOfObjectOnly ==
    \A i \in ContextDataEvents :
        /\ \A r \in Requests :
              get_context_data(tmpl.kind, log[i].obj, r).map = log[i].seen
        /\ EntityKeysBound(tmpl.kind, log[i].obj, log[i].seen)

\* C9 amended: get_context_data depends on the bound object and, through
\* the key 'qr_url' of StockItemLabel and PartLabel only, on the request;
\* it binds the listed entity keys to the bound object.
C9_FunctionOfObjectAndRequest ==
    \A i \in ContextDataEvents :
        LET m == log[i].seen
        IN  /\ \A r \in Requests :
                  LET other == get_context_data(tmpl.kind, log[i].obj, r).map
                  IN  /\ DOMAIN other = DOMAIN m
                      /\ \A k \in DOMAIN m \ {"qr_url"} : other[k] = m[k]
                      /\ r = log[i].request => other = m
                      /\ (r # log[i].request /\ "qr_url" \in DOMAIN m)
                             => other["qr_url"] # m["qr_url"]
            /\ "qr_url" \in DOMAIN m <=> tmpl.kind \in {"StockItemLabel", "PartLabel"}
            /\ EntityKeysBound(tmpl.kind, log[i].obj, m)

\* get_context_data has run for the stock item of quantity 5.000, IPN
\* "IPN-001" and serial "42"
C9_Witness ==
    /\ tmpl.kind = "StockItemLabel"
    /\ object_to_print = <<"obj", "s1">>
    /\ ContextDataEvents # {}
    /\ context["quantity"] = <<"dec", 5, 0>>

\* Positions in the log of the events of kind e
At(e) == {i \in 1..Len(log) : log[i].e = e}

\* C10: a render call that returns has run context assembly twice, the
\* first time inside generate_filename; the filename is fixed before the
\* second assembly starts; every registered plugin is called once per
\* pass, in registration order; the second pass starts from a fresh
\* mapping, so that nothing a plugin wrote in the first pass is in it.
\* No render call, returning or not, runs more than two passes.
C10_RenderAssemblesTwice ==
    op.name = "render" =>
        /\ pass <= 2
        /\ \A n \in 1..pass :
              \A i \in 1..Len(PluginCalls(n)) : PluginCalls(n)[i].plugin = plugins[i]
        \* the second pass starts after the filename is fixed ...
        /\ \A i \in PassEvents("get_context_data", 2) :
              /\ \E f \in At("filename") : f < i
              /\ fname = RenderPattern(tmpl.filename_pattern, ReturnedMapping(1))
              \* ... and from the mapping get_context_data has just built
              /\ log[i].seen =
                    get_context_data(tmpl.kind, object_to_print, op.request).map
        /\ (pc = "done" /\ result.kind = "return") =>
              /\ pass = 2
              /\ ReturnedPasses = {1, 2}
              /\ Cardinality(At("filename")) = 1
              /\ Cardinality(At("pdf")) = 1
              /\ \A n \in {1, 2} :
                    [i \in 1..Len(PluginCalls(n)) |-> PluginCalls(n)[i].plugin] = plugins
              \* what the document holds from plugins was written in pass 2
              /\ \A k \in DOMAIN context :
                    context[k][1] = "plugin" => WritesOf(2, k) # <<>>

\* render has returned; a plugin wrote 'extra' in the filename pass and
\* nothing in the document pass
C10_Witness ==
    /\ op.name = "render" /\ pc = "done" /\ result.kind = "return"
    /\ Len(plugins) = 2
    /\ WritesOf(1, "extra") # <<>>
    /\ WritesOf(2, "extra") = <<>>
    /\ fname = <<<<"str", "label-">>, <<"plugin", plugins[1]>>, <<"str", ".pdf">>>>
    /\ "extra" \notin DOMAIN context

-----------------------------------------------------------------------------
(* Determinism of render_as_string (checked under SpecTwice) *)

\* render_as_string has just returned, and the call before it was made on
\* the same template, the same bound object and the same request
SameInputsAsBefore ==
    /\ pc = "done" /\ op.name = "render_as_string" /\ result.kind = "return"
    /\ prev.valid
    /\ prev.self = tmpl
    /\ prev.obj = object_to_print
    /\ prev.html.request = op.request

\* The instant the running call read the clock
ClockRead == EventsOf("universal")[1].at

\* Two documents differ in nothing but the 'date' and 'datetime' values
SameButTimestamps(d1, d2) ==
    /\ d1.template = d2.template
    /\ d1.request = d2.request
    /\ DOMAIN d1.context = DOMAIN d2.context
    /\ \A k \in DOMAIN d1.context \ {"date", "datetime"} : d1.context[k] = d2.context[k]

-----------------------------------------------------------------------------
(* Filter validators (checked under SpecFilters) *)

\* The keys of well-formed pairs that are no field of the entity type
InvalidKeys(model) ==
    {groups[i].key : i \in {j \in 1..Len(groups) :
                              /\ groups[j].shape = "pair"
                              /\ groups[j].key \notin Fields(model)}}

\* C4: each validator checks against the entity type of its own class: a
\* filter string of well-formed pairs naming fields of that type passes
\* and comes back unchanged; one holding a pair with an invalid key fails
\* with a validation error naming that key.  The string itself is left
\* as it was.
C4_ValidatorsCheckOwnEntity ==
    vresult.status # "none" =>
        LET model == EntityOf(vresult.by)
        IN  /\ (\A i \in 1..Len(groups) :
                   groups[i].shape = "pair" /\ groups[i].key \in Fields(model))
               => (vresult.status = "ok" /\ vresult.value = filters)
            /\ InvalidKeys(model) # {}
               => (vresult.status = "ValidationError"
                   /\ InvalidKeys(model) \subseteq vresult.keys)
            /\ (\E i \in 1..Len(groups) : groups[i].shape # "pair")
               => vresult.status = "ValidationError"

\* The part validator has passed a string of two pairs
C4_Witness ==
    /\ vresult.by = "PartLabel"
    /\ vresult.status = "ok"
    /\ filters = <<"name", "=", "1", ",", "name", "=", "1">>

-----------------------------------------------------------------------------
(* Saving (checked under SpecStore) *)

\* The extension of an uploaded file, as the claim means it
ExtensionIsHtml(c) == LowerSeq(Suffix(c.upload)) = <<"html">>

\* C5: a save whose width or height is below 2, or whose file has an
\* extension other than html, fails validation with an error on that
\* field and leaves the stored records as they were; a save with an html
\* file and width and height of at least 2 meets no such error, and is
\* written whenever the remaining fields validate too.
C5_SaveValidates ==
    [][(lastSave.id = "none" /\ lastSave'.id # "none") =>
        LET c == lastSave'.cand
            e == lastSave'.errors
        IN  /\ c.width < 2 => <<"width", "min_value">> \in e
            /\ c.height < 2 => <<"height", "min_value">> \in e
            /\ ~ExtensionIsHtml(c) => <<"label", "invalid_extension">> \in e
            /\ (c.width < 2 \/ c.height < 2 \/ ~ExtensionIsHtml(c)) =>
                  (lastSave'.outcome = "ValidationError" /\ db' = db)
            /\ (c.width >= 2 /\ c.height >= 2 /\ ExtensionIsHtml(c)) =>
                  /\ e \cap {<<"width", "min_value">>, <<"height", "min_value">>,
                             <<"label", "invalid_extension">>} = {}
                  /\ e = {} <=> lastSave'.outcome = "saved"
                  /\ e = {} => db' = [db EXCEPT !["t2"] = Stored(cls, c)]
                  /\ e = {} <=> /\ c.name # ""
                                /\ FiltersValidator(cls, c.filters).status = "ok"
                                /\ LabelUnique(cls, "t2", c, db)
                  /\ e # {} => db' = db
    ]_vars

\* A template of exactly 2 by 2 with an html file has been saved
C5_Witness ==
    /\ lastSave.outcome = "saved"
    /\ lastSave.cand.width = 2 /\ lastSave.cand.height = 2
    /\ db["t2"].exists /\ db["t2"].width = 2

-----------------------------------------------------------------------------
(* Upload path (checked under SpecNames) *)

\* C8: for every instance and uploaded name rename_label returns the four
\* components label / template / SUBDIR / base name, and that path never
\* resolves outside label/template/SUBDIR.
C8_StaysBelowSubdir ==
    renamed.done =>
        /\ Components(renamed.path) =
              <<<<"label">>, <<"template">>, <<SUBDIR(cls)>>, basename(filename)>>
        /\ LET at == Resolve(Components(renamed.path))
           IN  /\ Len(at) >= 3
               /\ SubSeq(at, 1, 3) = <<<<"label">>, <<"template">>, <<SUBDIR(cls)>>>>

=============================================================================
